---- MODULE Spec2Model ----
(***************************************************************************)
(* Base EtherCAT datagram layer (ethercatbase.c): the frame builder        *)
(* (nexx_setupdatagram, nexx_adddatagram, nexx_writedatagramdata) and the  *)
(* blocking datagram primitives (nexx_BWR ... nexx_LRWDC).                 *)
(*                                                                         *)
(* Buffers are byte arrays: functions from offsets 0..n-1 to 0..255.       *)
(* The host is part of the state: its byte order (bigEndian) and the size  *)
(* of a data pointer (ptrSize), both fixed when the port is opened.        *)
(*                                                                         *)
(* ethercattype.h and nicdrv.c are not among the sources: the constants,   *)
(* the byte-order macros and the transport (getindex, srconfirm,           *)
(* setbufstat) are modelled from the wire layout and the consumed          *)
(* interface the specification describes.                                  *)
(***************************************************************************)
EXTENDS Integers, Sequences, FiniteSets, TLC

(***************************************************************************)
(* Bounds of the model.                                                    *)
(***************************************************************************)
\* transaction slots of the port
NSlots == 2
\* caller tasks
NTasks == 2
\* largest payload length a caller passes
MaxLen == 1
\* primitive calls in one behaviour of Spec
MaxCalls == 1
\* adddatagram calls chained after one setupdatagram
MaxAdds == 2

(***************************************************************************)
(* Program constants (ethercattype.h).                                     *)
(***************************************************************************)
\* sizeof(nex_etherheadert): destination, source, EtherType
ETH_HEADERSIZE == 14
\* sizeof(nex_comt): elength(2) command(1) index(1) ADP(2) ADO(2) dlength(2) irpt(2)
NEX_HEADERSIZE == 12
\* size of the elength field of nex_comt
NEX_ELENGTHSIZE == 2
\* offset of the command byte in nex_comt
NEX_CMDOFFSET == 2
\* size of the working counter
NEX_WKCSIZE == 2
\* bit 15 of dlength: another datagram follows
NEX_DATAGRAMFOLLOWS == 32768
\* EtherCAT protocol type 1 in the high nibble of elength
NEX_ECATTYPE == 4096
\* srconfirm: no frame returned
NEX_NOFRAME == -1
\* DC system time register
ECT_REG_DCSYSTIME == 2320
\* size of a slot buffer (nex_bufT)
NEX_MAXECATFRAME == 1518

\* offsets of the fields of nex_comt that follow elength and command
OFF_INDEX == 3
OFF_ADP == 4
OFF_ADO == 6
OFF_DLENGTH == 8
OFF_IRQ == 10

NEX_CMD_NOP == 0
NEX_CMD_APRD == 1
NEX_CMD_APWR == 2
NEX_CMD_APRW == 3
NEX_CMD_FPRD == 4
NEX_CMD_FPWR == 5
NEX_CMD_FPRW == 6
NEX_CMD_BRD == 7
NEX_CMD_BWR == 8
NEX_CMD_BRW == 9
NEX_CMD_LRD == 10
NEX_CMD_LWR == 11
NEX_CMD_LRW == 12
NEX_CMD_ARMW == 13
NEX_CMD_FRMW == 14

Commands == NEX_CMD_NOP .. NEX_CMD_FRMW

\* sizeof(uint16), sizeof(int64): sizeof(w), sizeof(data), sizeof(*DCtime)
SIZEOF_UINT16 == 2
SIZEOF_INT64 == 8

Slots == 0 .. (NSlots - 1)
Tasks == 1 .. NTasks

Max(a, b) == IF a >= b THEN a ELSE b

\* The modelled prefix of a slot buffer: room for the longest frame the bounded
\* calls build, a chain of 1 + MaxAdds datagrams or the two datagrams of LRWDC.
FrameRoom ==
    ETH_HEADERSIZE + NEX_HEADERSIZE + MaxLen + NEX_WKCSIZE
    + Max(MaxAdds * (NEX_HEADERSIZE + MaxLen), NEX_HEADERSIZE + SIZEOF_INT64)
BufIdx == 0 .. (FrameRoom - 1)

VARIABLES
    bigEndian,     \* host byte order
    ptrSize,       \* sizeof(void *) of the host: 4 or 8
    bufstat,       \* port->rxbufstat[idx]
    txbuf,         \* port->txbuf[idx]
    rxbuf,         \* port->rxbuf[idx]
    txbuflength,   \* port->txbuflength[idx]
    call,          \* per task: the locals of the primitive it is in
    ncalls,        \* primitive calls started so far
    chain,         \* frame builder: the datagrams chained in the frame being built
    last,          \* frame builder: the arguments and result of the last call
    late           \* per index: the frame of a timed-out call still on the wire

vars == <<bigEndian, ptrSize, bufstat, txbuf, rxbuf, txbuflength, call, ncalls, chain, last,
          late>>

(***************************************************************************)
(* Bytes, words and the byte-order macros.                                 *)
(***************************************************************************)
\* memcpy(&buf[off], src, n)
memcpy(buf, off, src, n) ==
    [k \in DOMAIN buf |-> IF k >= off /\ k < off + n THEN src[k - off] ELSE buf[k]]

\* memset(&buf[off], v, n)
memset(buf, off, v, n) ==
    [k \in DOMAIN buf |-> IF k >= off /\ k < off + n THEN v ELSE buf[k]]

\* the n bytes of buf from offset off
Slice(buf, off, n) == [k \in 0 .. (n - 1) |-> buf[off + k]]

Swap16(x) == (x % 256) * 256 + (x \div 256)

\* the two bytes a uint16 occupies in host memory
Mem16(x) ==
    IF bigEndian THEN [k \in 0 .. 1 |-> IF k = 0 THEN x \div 256 ELSE x % 256]
    ELSE [k \in 0 .. 1 |-> IF k = 0 THEN x % 256 ELSE x \div 256]

\* the uint16 two bytes of host memory hold
Val16(m) ==
    IF bigEndian THEN m[0] * 256 + m[1] ELSE m[0] + m[1] * 256

\* host to EtherCAT (little-endian) and back, 16 bit
htoes(x) == IF bigEndian THEN Swap16(x) ELSE x
etohs(x) == IF bigEndian THEN Swap16(x) ELSE x

\* the little-endian decoding of two bytes of a frame
LE16(buf, off) == buf[off] + 256 * buf[off + 1]

\* A 64-bit value is its eight bytes, least significant first.
Swap64(v) == [k \in 0 .. 7 |-> v[7 - k]]
Mem64(v) == IF bigEndian THEN Swap64(v) ELSE v
Val64(m) == IF bigEndian THEN Swap64(m) ELSE m
htoell(v) == IF bigEndian THEN Swap64(v) ELSE v
etohll(v) == IF bigEndian THEN Swap64(v) ELSE v

\* x | NEX_DATAGRAMFOLLOWS on a uint16
OrFollows(x) ==
    IF (x \div NEX_DATAGRAMFOLLOWS) % 2 = 1 THEN x ELSE x + NEX_DATAGRAMFOLLOWS

\* conversion to uint16
U16(x) == x % 65536

LO_WORD(l) == l % 65536
HI_WORD(l) == l \div 65536

\* a field stored at its offset in the datagram, the Ethernet header not counted
StoreField16_noEthHeader(frame, off, x) == memcpy(frame, off - ETH_HEADERSIZE, Mem16(x), 2)

\* store of a uint16 struct field at offset off of the frame
StoreField16(frame, off, x) == memcpy(frame, off, Mem16(x), 2)
\* load of a uint16 struct field
LoadField16(frame, off) == Val16(Slice(frame, off, 2))

(***************************************************************************)
(* Frame builder.                                                          *)
(***************************************************************************)
ReadCommands == {NEX_CMD_NOP, NEX_CMD_APRD, NEX_CMD_FPRD, NEX_CMD_BRD, NEX_CMD_LRD}

\* nexx_writedatagramdata with NEX_CMD_LRD missing from the cases that zero the payload
nexx_writedatagramdata_copyLRD(frame, off, com, length, data) ==
    IF length > 0
    THEN IF com \in (ReadCommands \ {NEX_CMD_LRD})
         THEN memset(frame, off, 0, length)
         ELSE memcpy(frame, off, data, length)
    ELSE frame

\* nexx_writedatagramdata: the frame with the payload region at off filled
nexx_writedatagramdata(frame, off, com, length, data) ==
    IF length > 0
    THEN IF com \in ReadCommands
         THEN memset(frame, off, 0, length)
         ELSE memcpy(frame, off, data, length)
    ELSE frame

\* nexx_setupdatagram storing ADP and ADO in host order, without htoes
setupdatagram_frame_hostorder(frame, com, idx, ADP, ADO, length, data) ==
    LET f1 == StoreField16(frame, ETH_HEADERSIZE,
                           htoes(U16(NEX_ECATTYPE + NEX_HEADERSIZE + length)))
        f2 == [f1 EXCEPT ![ETH_HEADERSIZE + NEX_CMDOFFSET] = com % 256]
        f3 == [f2 EXCEPT ![ETH_HEADERSIZE + OFF_INDEX] = idx % 256]
        f4 == StoreField16(f3, ETH_HEADERSIZE + OFF_ADP, ADP)
        f5 == StoreField16(f4, ETH_HEADERSIZE + OFF_ADO, ADO)
        f6 == StoreField16(f5, ETH_HEADERSIZE + OFF_DLENGTH, htoes(length))
        f7 == nexx_writedatagramdata(f6, ETH_HEADERSIZE + NEX_HEADERSIZE, com, length, data)
        f8 == [f7 EXCEPT ![ETH_HEADERSIZE + NEX_HEADERSIZE + length] = 0]
    IN  [f8 EXCEPT ![ETH_HEADERSIZE + NEX_HEADERSIZE + length + 1] = 0]

\* nexx_setupdatagram storing the sub-header and the payload alone in elength
setupdatagram_frame_elengthNoWkc(frame, com, idx, ADP, ADO, length, data) ==
    LET f1 == StoreField16(frame, ETH_HEADERSIZE,
                           htoes(U16(NEX_ECATTYPE + NEX_HEADERSIZE - NEX_WKCSIZE + length)))
        f2 == [f1 EXCEPT ![ETH_HEADERSIZE + NEX_CMDOFFSET] = com % 256]
        f3 == [f2 EXCEPT ![ETH_HEADERSIZE + OFF_INDEX] = idx % 256]
        f4 == StoreField16(f3, ETH_HEADERSIZE + OFF_ADP, htoes(ADP))
        f5 == StoreField16(f4, ETH_HEADERSIZE + OFF_ADO, htoes(ADO))
        f6 == StoreField16(f5, ETH_HEADERSIZE + OFF_DLENGTH, htoes(length))
        f7 == nexx_writedatagramdata(f6, ETH_HEADERSIZE + NEX_HEADERSIZE, com, length, data)
        f8 == [f7 EXCEPT ![ETH_HEADERSIZE + NEX_HEADERSIZE + length] = 0]
    IN  [f8 EXCEPT ![ETH_HEADERSIZE + NEX_HEADERSIZE + length + 1] = 0]

\* nexx_setupdatagram on port->txbuf[idx]: the frame it leaves
setupdatagram_frame_keepsFollows(frame, com, idx, ADP, ADO, length, data) ==
    LET old == etohs(LoadField16(frame, ETH_HEADERSIZE + OFF_DLENGTH))
        f1 == StoreField16(frame, ETH_HEADERSIZE,
                           htoes(U16(NEX_ECATTYPE + NEX_HEADERSIZE + length)))
        f2 == [f1 EXCEPT ![ETH_HEADERSIZE + NEX_CMDOFFSET] = com % 256]
        f3 == [f2 EXCEPT ![ETH_HEADERSIZE + OFF_INDEX] = idx % 256]
        f4 == StoreField16(f3, ETH_HEADERSIZE + OFF_ADP, htoes(ADP))
        f5 == StoreField16(f4, ETH_HEADERSIZE + OFF_ADO, htoes(ADO))
        f6 == StoreField16(f5, ETH_HEADERSIZE + OFF_DLENGTH,
                           htoes(IF old >= 32768 THEN OrFollows(length) ELSE length))
        f7 == nexx_writedatagramdata(f6, ETH_HEADERSIZE + NEX_HEADERSIZE, com, length, data)
        f8 == [f7 EXCEPT ![ETH_HEADERSIZE + NEX_HEADERSIZE + length] = 0]
    IN  [f8 EXCEPT ![ETH_HEADERSIZE + NEX_HEADERSIZE + length + 1] = 0]

\* nexx_setupdatagram: the frame it leaves in txbuf[idx]
setupdatagram_frame(frame, com, idx, ADP, ADO, length, data) ==
    LET f1 == StoreField16(frame, ETH_HEADERSIZE,
                           htoes(U16(NEX_ECATTYPE + NEX_HEADERSIZE + length)))
        f2 == [f1 EXCEPT ![ETH_HEADERSIZE + NEX_CMDOFFSET] = com % 256]
        f3 == [f2 EXCEPT ![ETH_HEADERSIZE + OFF_INDEX] = idx % 256]
        f4 == StoreField16(f3, ETH_HEADERSIZE + OFF_ADP, htoes(ADP))
        f5 == StoreField16(f4, ETH_HEADERSIZE + OFF_ADO, htoes(ADO))
        f6 == StoreField16(f5, ETH_HEADERSIZE + OFF_DLENGTH, htoes(length))
        f7 == nexx_writedatagramdata(f6, ETH_HEADERSIZE + NEX_HEADERSIZE, com, length, data)
        f8 == [f7 EXCEPT ![ETH_HEADERSIZE + NEX_HEADERSIZE + length] = 0]
    IN  [f8 EXCEPT ![ETH_HEADERSIZE + NEX_HEADERSIZE + length + 1] = 0]

\* nexx_setupdatagram counting the frame without the working counter
setupdatagram_length_noWkc(length) ==
    ETH_HEADERSIZE + NEX_HEADERSIZE + length

\* nexx_setupdatagram: port->txbuflength[idx] it sets
setupdatagram_length(length) ==
    ETH_HEADERSIZE + NEX_HEADERSIZE + NEX_WKCSIZE + length

\* nexx_adddatagram without the "datagram follows" flag on the first datagram
adddatagram_frame_noflag(frame, prevlength, com, idx, more, ADP, ADO, length, data) ==
    LET f2 == StoreField16(frame, ETH_HEADERSIZE,
                  htoes(U16(etohs(LoadField16(frame, ETH_HEADERSIZE))
                            + NEX_HEADERSIZE + length)))
        base == prevlength - NEX_ELENGTHSIZE
        f3 == [f2 EXCEPT ![base + NEX_CMDOFFSET] = com % 256]
        f4 == [f3 EXCEPT ![base + OFF_INDEX] = idx % 256]
        f5 == StoreField16(f4, base + OFF_ADP, htoes(ADP))
        f6 == StoreField16(f5, base + OFF_ADO, htoes(ADO))
        f7 == IF more
              THEN StoreField16(f6, base + OFF_DLENGTH, htoes(OrFollows(length)))
              ELSE StoreField16(f6, base + OFF_DLENGTH, htoes(length))
        f8 == nexx_writedatagramdata(f7, prevlength + NEX_HEADERSIZE - NEX_ELENGTHSIZE,
                                     com, length, data)
        f9 == [f8 EXCEPT ![prevlength + NEX_HEADERSIZE - NEX_ELENGTHSIZE + length] = 0]
    IN  [f9 EXCEPT ![prevlength + NEX_HEADERSIZE - NEX_ELENGTHSIZE + length + 1] = 0]

\* nexx_adddatagram adding the new datagram to elength without its working counter
adddatagram_frame_elengthNoWkc(frame, prevlength, com, idx, more, ADP, ADO, length, data) ==
    LET f1 == StoreField16(frame, ETH_HEADERSIZE,
                  htoes(U16(etohs(LoadField16(frame, ETH_HEADERSIZE))
                            + NEX_HEADERSIZE - NEX_WKCSIZE + length)))
        f2 == StoreField16(f1, ETH_HEADERSIZE + OFF_DLENGTH,
                  htoes(OrFollows(etohs(LoadField16(f1, ETH_HEADERSIZE + OFF_DLENGTH)))))
        base == prevlength - NEX_ELENGTHSIZE
        f3 == [f2 EXCEPT ![base + NEX_CMDOFFSET] = com % 256]
        f4 == [f3 EXCEPT ![base + OFF_INDEX] = idx % 256]
        f5 == StoreField16(f4, base + OFF_ADP, htoes(ADP))
        f6 == StoreField16(f5, base + OFF_ADO, htoes(ADO))
        f7 == IF more
              THEN StoreField16(f6, base + OFF_DLENGTH, htoes(OrFollows(length)))
              ELSE StoreField16(f6, base + OFF_DLENGTH, htoes(length))
        f8 == nexx_writedatagramdata(f7, prevlength + NEX_HEADERSIZE - NEX_ELENGTHSIZE,
                                     com, length, data)
        f9 == [f8 EXCEPT ![prevlength + NEX_HEADERSIZE - NEX_ELENGTHSIZE + length] = 0]
    IN  [f9 EXCEPT ![prevlength + NEX_HEADERSIZE - NEX_ELENGTHSIZE + length + 1] = 0]

\* nexx_adddatagram placing the new sub-header on the working counter before it
adddatagram_frame_overWkc(frame, prevlength, com, idx, more, ADP, ADO, length, data) ==
    LET f1 == StoreField16(frame, ETH_HEADERSIZE,
                  htoes(U16(etohs(LoadField16(frame, ETH_HEADERSIZE))
                            + NEX_HEADERSIZE + length)))
        f2 == StoreField16(f1, ETH_HEADERSIZE + OFF_DLENGTH,
                  htoes(OrFollows(etohs(LoadField16(f1, ETH_HEADERSIZE + OFF_DLENGTH)))))
        base == prevlength - NEX_ELENGTHSIZE - NEX_WKCSIZE
        f3 == [f2 EXCEPT ![base + NEX_CMDOFFSET] = com % 256]
        f4 == [f3 EXCEPT ![base + OFF_INDEX] = idx % 256]
        f5 == StoreField16(f4, base + OFF_ADP, htoes(ADP))
        f6 == StoreField16(f5, base + OFF_ADO, htoes(ADO))
        f7 == IF more
              THEN StoreField16(f6, base + OFF_DLENGTH, htoes(OrFollows(length)))
              ELSE StoreField16(f6, base + OFF_DLENGTH, htoes(length))
        f8 == nexx_writedatagramdata(f7, prevlength + NEX_HEADERSIZE - NEX_ELENGTHSIZE,
                                     com, length, data)
        f9 == [f8 EXCEPT ![prevlength + NEX_HEADERSIZE - NEX_ELENGTHSIZE + length] = 0]
    IN  [f9 EXCEPT ![prevlength + NEX_HEADERSIZE - NEX_ELENGTHSIZE + length + 1] = 0]

\* nexx_adddatagram storing the command before it moves datagramP to the new
\* sub-header: the command lands in the first datagram
adddatagram_frame_commandBeforeMove(frame, prevlength, com, idx, more, ADP, ADO, length, data) ==
    LET f1 == StoreField16(frame, ETH_HEADERSIZE,
                  htoes(U16(etohs(LoadField16(frame, ETH_HEADERSIZE))
                            + NEX_HEADERSIZE + length)))
        f2 == StoreField16(f1, ETH_HEADERSIZE + OFF_DLENGTH,
                  htoes(OrFollows(etohs(LoadField16(f1, ETH_HEADERSIZE + OFF_DLENGTH)))))
        base == prevlength - NEX_ELENGTHSIZE
        f3 == [f2 EXCEPT ![ETH_HEADERSIZE + NEX_CMDOFFSET] = com % 256]
        f4 == [f3 EXCEPT ![base + OFF_INDEX] = idx % 256]
        f5 == StoreField16(f4, base + OFF_ADP, htoes(ADP))
        f6 == StoreField16(f5, base + OFF_ADO, htoes(ADO))
        f7 == IF more
              THEN StoreField16(f6, base + OFF_DLENGTH, htoes(OrFollows(length)))
              ELSE StoreField16(f6, base + OFF_DLENGTH, htoes(length))
        f8 == nexx_writedatagramdata(f7, prevlength + NEX_HEADERSIZE - NEX_ELENGTHSIZE,
                                     com, length, data)
        f9 == [f8 EXCEPT ![prevlength + NEX_HEADERSIZE - NEX_ELENGTHSIZE + length] = 0]
    IN  [f9 EXCEPT ![prevlength + NEX_HEADERSIZE - NEX_ELENGTHSIZE + length + 1] = 0]

\* nexx_adddatagram on port->txbuf[idx]: the frame it leaves
adddatagram_frame(frame, prevlength, com, idx, more, ADP, ADO, length, data) ==
    LET f1 == StoreField16(frame, ETH_HEADERSIZE,
                  htoes(U16(etohs(LoadField16(frame, ETH_HEADERSIZE))
                            + NEX_HEADERSIZE + length)))
        f2 == StoreField16(f1, ETH_HEADERSIZE + OFF_DLENGTH,
                  htoes(OrFollows(etohs(LoadField16(f1, ETH_HEADERSIZE + OFF_DLENGTH)))))
        base == prevlength - NEX_ELENGTHSIZE
        f3 == [f2 EXCEPT ![base + NEX_CMDOFFSET] = com % 256]
        f4 == [f3 EXCEPT ![base + OFF_INDEX] = idx % 256]
        f5 == StoreField16(f4, base + OFF_ADP, htoes(ADP))
        f6 == StoreField16(f5, base + OFF_ADO, htoes(ADO))
        f7 == IF more
              THEN StoreField16(f6, base + OFF_DLENGTH, htoes(OrFollows(length)))
              ELSE StoreField16(f6, base + OFF_DLENGTH, htoes(length))
        f8 == nexx_writedatagramdata(f7, prevlength + NEX_HEADERSIZE - NEX_ELENGTHSIZE,
                                     com, length, data)
        f9 == [f8 EXCEPT ![prevlength + NEX_HEADERSIZE - NEX_ELENGTHSIZE + length] = 0]
    IN  [f9 EXCEPT ![prevlength + NEX_HEADERSIZE - NEX_ELENGTHSIZE + length + 1] = 0]

\* nexx_adddatagram counting the new datagram from the working counter before it
adddatagram_length_overWkc(prevlength, length) ==
    prevlength - NEX_WKCSIZE + NEX_HEADERSIZE - NEX_ELENGTHSIZE + NEX_WKCSIZE + length

\* nexx_adddatagram: port->txbuflength[idx] it sets
adddatagram_length(prevlength, length) ==
    prevlength + NEX_HEADERSIZE - NEX_ELENGTHSIZE + NEX_WKCSIZE + length

\* nexx_adddatagram returning the offset of the payload in the tx frame
adddatagram_return_txoffset(prevlength) ==
    prevlength + NEX_HEADERSIZE - NEX_ELENGTHSIZE

\* the offset of the new sub-header in the received frame
adddatagram_return_subheader(prevlength) == prevlength - ETH_HEADERSIZE

\* nexx_adddatagram: the offset it returns
adddatagram_return(prevlength) ==
    prevlength + NEX_HEADERSIZE - NEX_ELENGTHSIZE - ETH_HEADERSIZE

(***************************************************************************)
(* The port after it is opened: every slot EMPTY, the Ethernet header of   *)
(* each transmit buffer preset, the rest of the buffers zero.              *)
(***************************************************************************)
\* destination ff:ff:ff:ff:ff:ff, source 01:01:01:01:01:01, EtherType 88 a4
EthHeaderByte(k) ==
    IF k < 6 THEN 255 ELSE IF k < 12 THEN 1 ELSE IF k = 12 THEN 136 ELSE 164

PresetFrame == [k \in BufIdx |-> IF k < ETH_HEADERSIZE THEN EthHeaderByte(k) ELSE 0]

\* no primitive in progress
IdleCall ==
    [pc |-> "idle", prim |-> "none", idx |-> 0, ADP |-> 0, ADO |-> 0, LogAdr |-> 0,
     length |-> 0, data |-> << >>, data0 |-> << >>, DCrs |-> 0,
     DCtime |-> << >>, DCtime0 |-> << >>, DCtO |-> 0, wkc |-> 0, sr |-> 0, ret |-> 0,
     ngetindex |-> 0, nsrconfirm |-> 0, nsetbufstat |-> 0, reply |-> "none"]

NoOp == [op |-> "none"]

\* no frame of a timed-out call on the wire
NoFrame == [pending |-> FALSE, frame |-> << >>, txlen |-> 0, length |-> 0]

PortInit ==
    /\ bigEndian \in BOOLEAN
    /\ ptrSize \in {4, 8}
    /\ bufstat = [i \in Slots |-> "EMPTY"]
    /\ txbuf = [i \in Slots |-> PresetFrame]
    /\ rxbuf = [i \in Slots |-> [k \in BufIdx |-> 0]]
    /\ txbuflength = [i \in Slots |-> 0]
    /\ call = [t \in Tasks |-> IdleCall]
    /\ ncalls = 0
    /\ chain = << >>
    /\ last = NoOp
    /\ late = [i \in Slots |-> NoFrame]

(***************************************************************************)
(* Frame builder used directly by a higher layer: one setupdatagram, then  *)
(* adddatagram calls on the same frame and index.                          *)
(***************************************************************************)
\* the caller's data buffers: length bytes, none of them zero
CallerData(length) == { [k \in 0 .. (length - 1) |-> fill + k] : fill \in {161, 92} }

ArgADP == {4097}
ArgADO == {288}
Lengths == 0 .. MaxLen

Setup(idx, com, ADP, ADO, length, data) ==
    /\ chain = << >>
    /\ txbuf' = [txbuf EXCEPT ![idx] =
                    setupdatagram_frame(txbuf[idx], com, idx, ADP, ADO, length, data)]
    /\ txbuflength' = [txbuflength EXCEPT ![idx] = setupdatagram_length(length)]
    /\ chain' = << [off |-> ETH_HEADERSIZE + NEX_ELENGTHSIZE, com |-> com,
                    length |-> length, more |-> FALSE] >>
    /\ last' = [op |-> "setup", idx |-> idx, com |-> com, ADP |-> ADP, ADO |-> ADO,
                length |-> length, data |-> data, prev |-> txbuflength[idx],
                before |-> txbuf[idx], ret |-> 0]
    /\ UNCHANGED <<late, bigEndian, ptrSize, bufstat, rxbuf, call, ncalls>>

Add(com, more, ADP, ADO, length, data) ==
    /\ chain # << >>
    /\ Len(chain) <= MaxAdds
    /\ LET idx == last.idx
           prev == txbuflength[idx]
       IN  /\ adddatagram_length(prev, length) <= FrameRoom
           /\ txbuf' = [txbuf EXCEPT ![idx] =
                  adddatagram_frame(txbuf[idx], prev, com, idx, more, ADP, ADO, length, data)]
           /\ txbuflength' = [txbuflength EXCEPT ![idx] = adddatagram_length(prev, length)]
           /\ chain' = Append(chain, [off |-> prev, com |-> com,
                                      length |-> length, more |-> more])
           /\ last' = [op |-> "add", idx |-> idx, com |-> com, ADP |-> ADP, ADO |-> ADO,
                       length |-> length, data |-> data, prev |-> prev,
                       before |-> txbuf[idx], ret |-> adddatagram_return(prev)]
    /\ UNCHANGED <<late, bigEndian, ptrSize, bufstat, rxbuf, call, ncalls>>

\* every command in the one datagram of a frame, or in the second of two
NextFB ==
    \/ \E idx \in Slots, com \in Commands, ADP \in ArgADP, ADO \in ArgADO,
          length \in Lengths :
          \E data \in CallerData(length) : Setup(idx, com, ADP, ADO, length, data)
    \/ \E com \in Commands, more \in BOOLEAN, ADP \in ArgADP, ADO \in ArgADO,
          length \in Lengths :
          \E data \in CallerData(length) :
             /\ Len(chain) = 1
             /\ Add(com, more, ADP, ADO, length, data)

\* the frame builder holds no pointer-sized object
InitFB == PortInit /\ ptrSize = 8

SpecFB == InitFB /\ [][NextFB]_vars

\* a read command and a write command in chains of up to MaxAdds + 1 datagrams
ChainCommands == {NEX_CMD_BRD, NEX_CMD_FPWR}
ChainData(length) == { [k \in 0 .. (length - 1) |-> 161 + k] }

NextChain ==
    \/ \E idx \in Slots, com \in ChainCommands, ADP \in ArgADP, ADO \in ArgADO,
          length \in Lengths :
          \E data \in ChainData(length) : Setup(idx, com, ADP, ADO, length, data)
    \/ \E com \in ChainCommands, more \in BOOLEAN, ADP \in ArgADP, ADO \in ArgADO,
          length \in Lengths :
          \E data \in ChainData(length) : Add(com, more, ADP, ADO, length, data)

SpecChain == InitFB /\ [][NextChain]_vars

\* The higher layer hands the frame it built to the transport and, the reply
\* taken, gives the index back: the next frame is built in a slot whose
\* buffer holds what earlier frames left there.
HandOver ==
    /\ chain # << >>
    /\ ncalls < MaxCalls
    /\ ncalls' = ncalls + 1
    /\ chain' = << >>
    /\ last' = [NoOp EXCEPT !.op = "sent"]
    /\ UNCHANGED <<late, bigEndian, ptrSize, bufstat, txbuf, rxbuf, txbuflength, call>>

\* frames built one after the other in the slots of the port
NextReuse ==
    \/ NextChain
    \/ HandOver

SpecReuse == InitFB /\ [][NextReuse]_vars

(***************************************************************************)
(* Transport (nicdrv.c): index pool, send-receive-confirm, buffer status.  *)
(***************************************************************************)
\* nexx_getindex: an EMPTY slot, marked ALLOC
getindex_ok(idx) == bufstat[idx] = "EMPTY"

\* nexx_setbufstat
setbufstat(stat, idx, state) == [stat EXCEPT ![idx] = state]

\* bytes a slave writes into a read payload, and the DC reference time
SlaveByte(k) == IF k = 1 THEN 18 ELSE 52 + k
ClockByte(k) == 17 * (k + 1)

\* The frame the transport delivers for the frame tx of txlen bytes: the sent
\* frame without its Ethernet header, the payload of each datagram replaced by
\* the slaves' bytes and the working counters filled in; cmdok = FALSE
\* delivers a frame whose first command byte is not the one sent.
ReplyFrame(rx, tx, txlen, length, wf, cmdok, two) ==
    LET n == txlen - ETH_HEADERSIZE
        p1 == NEX_HEADERSIZE
        w1 == p1 + length
        p2 == w1 + NEX_WKCSIZE + NEX_HEADERSIZE - NEX_ELENGTHSIZE
        w2 == n - NEX_WKCSIZE
    IN  [k \in DOMAIN rx |->
            IF k >= n THEN rx[k]
            ELSE IF k = NEX_CMDOFFSET /\ ~cmdok THEN NEX_CMD_NOP
            ELSE IF k >= p1 /\ k < w1 THEN SlaveByte(k - p1)
            ELSE IF k = w1 THEN wf % 256
            ELSE IF k = w1 + 1 THEN wf \div 256
            ELSE IF two /\ k >= p2 /\ k < w2 THEN ClockByte(k - p2)
            ELSE IF two /\ k = w2 THEN 1
            ELSE tx[k + ETH_HEADERSIZE]]

(***************************************************************************)
(* Datagram primitives.                                                    *)
(***************************************************************************)
Prims == {"BWR", "BRD", "APRD", "ARMW", "FRMW", "APRDw", "FPRD", "FPRDw",
          "APWR", "APWRw", "FPWR", "FPWRw", "LRW", "LRD", "LWR", "LRWDC"}

\* the command each primitive passes to nexx_setupdatagram
PrimCmd(p) ==
    CASE p = "BWR" -> NEX_CMD_BWR
      [] p = "BRD" -> NEX_CMD_BRD
      [] p \in {"APRD", "APRDw"} -> NEX_CMD_APRD
      [] p = "ARMW" -> NEX_CMD_ARMW
      [] p = "FRMW" -> NEX_CMD_FRMW
      [] p \in {"FPRD", "FPRDw"} -> NEX_CMD_FPRD
      [] p \in {"APWR", "APWRw"} -> NEX_CMD_APWR
      [] p \in {"FPWR", "FPWRw"} -> NEX_CMD_FPWR
      [] p \in {"LRW", "LRWDC"} -> NEX_CMD_LRW
      [] p = "LRD" -> NEX_CMD_LRD
      [] p = "LWR" -> NEX_CMD_LWR

\* primitives that copy the reply whenever wkc > 0
ReadPrims == {"BRD", "APRD", "ARMW", "FRMW", "FPRD", "APRDw", "FPRDw"}
\* primitives that copy nothing back
WritePrims == {"BWR", "APWR", "APWRw", "FPWR", "FPWRw", "LWR"}
\* primitives that copy the reply when wkc > 0 and its command is the one sent
CheckedPrims == {"LRW", "LRD", "LRWDC"}
\* primitives addressed by a 32-bit logical address
LogicalPrims == {"LRW", "LRD", "LWR", "LRWDC"}
\* word variants: a uint16 local or parameter is the data buffer
WordReadPrims == {"APRDw", "FPRDw"}
WordWritePrims == {"APWRw", "FPWRw"}

ArgLogAdr == {305419896}
ArgDCrs == {4096}
ArgWord == {4660}
\* *DCtime before the call: 0x0807060504030201
ArgDCtime == { [k \in 0 .. 7 |-> k + 1] }

\* the arguments of a call of primitive p
PrimArgs(p) ==
    IF p \in WordReadPrims
    THEN { [ADP |-> a, ADO |-> o, LogAdr |-> 0, length |-> SIZEOF_UINT16,
            data |-> Mem16(0), DCrs |-> 0, DCtime |-> << >>]
           : a \in ArgADP, o \in ArgADO }
    ELSE IF p \in WordWritePrims
    THEN { [ADP |-> x[1], ADO |-> x[2], LogAdr |-> 0, length |-> SIZEOF_UINT16,
            data |-> Mem16(x[3]), DCrs |-> 0, DCtime |-> << >>]
           : x \in ArgADP \X ArgADO \X ArgWord }
    ELSE IF p = "LRWDC"
    THEN UNION { { [ADP |-> 0, ADO |-> 0, LogAdr |-> x[1], length |-> x[2],
                    data |-> d, DCrs |-> x[3], DCtime |-> x[4]]
                   : d \in CallerData(x[2]) }
                 : x \in ArgLogAdr \X Lengths \X ArgDCrs \X ArgDCtime }
    ELSE IF p \in LogicalPrims
    THEN UNION { { [ADP |-> 0, ADO |-> 0, LogAdr |-> x[1], length |-> x[2],
                    data |-> d, DCrs |-> 0, DCtime |-> << >>]
                   : d \in CallerData(x[2]) }
                 : x \in ArgLogAdr \X Lengths }
    ELSE UNION { { [ADP |-> x[1], ADO |-> x[2], LogAdr |-> 0, length |-> x[3],
                    data |-> d, DCrs |-> 0, DCtime |-> << >>]
                   : d \in CallerData(x[3]) }
                 : x \in ArgADP \X ArgADO \X Lengths }

\* the address words a primitive passes to nexx_setupdatagram
PrimADP(c) == IF c.prim \in LogicalPrims THEN LO_WORD(c.LogAdr) ELSE c.ADP
PrimADO(c) == IF c.prim \in LogicalPrims THEN HI_WORD(c.LogAdr) ELSE c.ADO

\* sizeof(DCtime) in nexx_LRWDC: DCtime is a pointer
SizeofDCtimeArg == ptrSize

\* the frame a primitive builds in txbuf[idx] before it sends
BuildFrame(c, frame) ==
    LET first == setupdatagram_frame(frame, PrimCmd(c.prim), c.idx, PrimADP(c),
                                     PrimADO(c), c.length, c.data)
    IN  IF c.prim = "LRWDC"
        THEN adddatagram_frame(first, setupdatagram_length(c.length), NEX_CMD_FRMW,
                               c.idx, FALSE, c.DCrs, ECT_REG_DCSYSTIME,
                               SizeofDCtimeArg, Mem64(htoell(c.DCtime)))
        ELSE first

\* txbuflength[idx] when the primitive sends
BuildLength(c) ==
    IF c.prim = "LRWDC"
    THEN adddatagram_length(setupdatagram_length(c.length), SizeofDCtimeArg)
    ELSE setupdatagram_length(c.length)

\* DCtO of nexx_LRWDC, a uint16
BuildDCtO(c) ==
    IF c.prim = "LRWDC"
    THEN U16(adddatagram_return(setupdatagram_length(c.length)))
    ELSE 0

\* memcpy(&wkc, src, NEX_WKCSIZE) into a 32-bit int wkc > 0
WkcOverlay(wkc, src) ==
    IF bigEndian
    THEN (IF src[0] < 128 THEN src[0] ELSE src[0] - 256) * 16777216
         + src[1] * 65536 + (wkc % 65536)
    ELSE (wkc \div 65536) * 65536 + src[1] * 256 + src[0]

\* the read-back tested with if (wkc) instead of if (wkc > 0)
CopiesBack_nonzero(p, wkc, rx) ==
    CASE p \in ReadPrims -> wkc # 0
      [] p \in WritePrims -> FALSE
      [] p = "LRD" -> (wkc # 0) /\ (rx[NEX_CMDOFFSET] = NEX_CMD_LRD)
      [] p \in {"LRW", "LRWDC"} -> (wkc # 0) /\ (rx[NEX_CMDOFFSET] = NEX_CMD_LRW)

\* the read-back of the logical primitives without the test of the reply command
CopiesBack_unchecked(p, wkc, rx) ==
    CASE p \in ReadPrims -> wkc > 0
      [] p \in WritePrims -> FALSE
      [] p \in CheckedPrims -> wkc > 0

\* write primitives that copy the reply back like the read primitives
CopiesBack_writesToo(p, wkc, rx) ==
    CASE p \in ReadPrims -> wkc > 0
      [] p \in WritePrims -> wkc > 0
      [] p = "LRD" -> (wkc > 0) /\ (rx[NEX_CMDOFFSET] = NEX_CMD_LRD)
      [] p \in {"LRW", "LRWDC"} -> (wkc > 0) /\ (rx[NEX_CMDOFFSET] = NEX_CMD_LRW)

\* a read-back that does not look at what srconfirm returned
CopiesBack_ignoresWkc(p, wkc, rx) == p \notin WritePrims

\* does the primitive copy the reply back?
CopiesBack(p, wkc, rx) ==
    CASE p \in ReadPrims -> wkc > 0
      [] p \in WritePrims -> FALSE
      [] p = "LRD" -> (wkc > 0) /\ (rx[NEX_CMDOFFSET] = NEX_CMD_LRD)
      [] p \in {"LRW", "LRWDC"} -> (wkc > 0) /\ (rx[NEX_CMDOFFSET] = NEX_CMD_LRW)

\* the reply payload taken behind the 10 bytes of the sub-header alone
ReplyDataOffset_subheader == NEX_HEADERSIZE - NEX_ELENGTHSIZE

\* the offset in rxbuf[idx] the primitives copy the reply payload from
ReplyDataOffset == NEX_HEADERSIZE

\* the locals and the caller's buffers after the read-back of a primitive
ReadBack(c, rx) ==
    IF CopiesBack(c.prim, c.wkc, rx)
    THEN IF c.prim = "LRWDC"
         THEN [c EXCEPT
                 !.data = Slice(rx, ReplyDataOffset, c.length),
                 !.wkc = WkcOverlay(c.wkc, Slice(rx, NEX_HEADERSIZE + c.length, NEX_WKCSIZE)),
                 !.DCtime = etohll(Val64(Slice(rx, c.DCtO, SIZEOF_INT64)))]
         ELSE [c EXCEPT !.data = Slice(rx, ReplyDataOffset, c.length)]
    ELSE c

\* a primitive that returns on a timeout without releasing its index
FinishStat_keepOnTimeout(c, stat) ==
    IF c.sr = NEX_NOFRAME THEN stat ELSE setbufstat(stat, c.idx, "EMPTY")

\* a primitive that leaves its index allocated
FinishStat_alloc(c, stat) == setbufstat(stat, c.idx, "ALLOC")

\* nexx_setbufstat(port, idx, NEX_BUF_EMPTY) at the end of every primitive
FinishStat(c, stat) == setbufstat(stat, c.idx, "EMPTY")

\* the word variants converting the word they return with etohs
ReturnValue_etohs(c) == IF c.prim \in WordReadPrims THEN etohs(Val16(c.data)) ELSE c.wkc

\* the value the primitive returns
ReturnValue(c) == IF c.prim \in WordReadPrims THEN Val16(c.data) ELSE c.wkc

\* what srconfirm returns with the working counter of the first datagram:
\* <<value returned, working counter of the first datagram>>
Outcomes(p) ==
    IF p = "LRWDC" THEN { <<0, 0>>, <<1, 0>>, <<514, 513>> } ELSE { <<0, 0>>, <<3, 3>> }

\* idx = nexx_getindex(port) at the entry of primitive p, called by task t
AcquireIndex(t, p, a, idx) ==
    /\ call[t].pc = "idle"
    /\ getindex_ok(idx)
    /\ bufstat' = setbufstat(bufstat, idx, "ALLOC")
    /\ call' = [call EXCEPT ![t] =
                   [IdleCall EXCEPT !.pc = "alloc", !.prim = p, !.idx = idx,
                                    !.ADP = a.ADP, !.ADO = a.ADO, !.LogAdr = a.LogAdr,
                                    !.length = a.length, !.data = a.data, !.data0 = a.data,
                                    !.DCrs = a.DCrs, !.DCtime = a.DCtime,
                                    !.DCtime0 = a.DCtime, !.ngetindex = 1]]
    /\ ncalls' = ncalls + 1
    /\ UNCHANGED <<late, bigEndian, ptrSize, txbuf, rxbuf, txbuflength, chain, last>>

\* a call of the blocking, synchronous caller
GetIndex(t, p, a, idx) ==
    /\ ncalls < MaxCalls
    /\ AcquireIndex(t, p, a, idx)

\* the frame built in port->txbuf[0] whatever index the call holds
Build_slot0(t) ==
    /\ call[t].pc = "alloc"
    /\ LET c == call[t]
       IN  /\ txbuf' = [txbuf EXCEPT ![0] = BuildFrame(c, txbuf[0])]
           /\ txbuflength' = [txbuflength EXCEPT ![0] = BuildLength(c)]
           /\ call' = [call EXCEPT ![t] = [c EXCEPT !.pc = "built", !.DCtO = BuildDCtO(c)]]
    /\ UNCHANGED <<late, bigEndian, ptrSize, bufstat, rxbuf, ncalls, chain, last>>

\* nexx_setupdatagram, and nexx_adddatagram in nexx_LRWDC
Build(t) ==
    /\ call[t].pc = "alloc"
    /\ LET c == call[t]
       IN  /\ txbuf' = [txbuf EXCEPT ![c.idx] = BuildFrame(c, txbuf[c.idx])]
           /\ txbuflength' = [txbuflength EXCEPT ![c.idx] = BuildLength(c)]
           /\ call' = [call EXCEPT ![t] = [c EXCEPT !.pc = "built", !.DCtO = BuildDCtO(c)]]
    /\ UNCHANGED <<late, bigEndian, ptrSize, bufstat, rxbuf, ncalls, chain, last>>

\* nexx_srconfirm: the frame is transmitted
Send(t) ==
    /\ call[t].pc = "built"
    /\ bufstat' = setbufstat(bufstat, call[t].idx, "TX")
    /\ call' = [call EXCEPT ![t] = [call[t] EXCEPT !.pc = "sent",
                                                   !.nsrconfirm = call[t].nsrconfirm + 1]]
    /\ UNCHANGED <<late, bigEndian, ptrSize, txbuf, rxbuf, txbuflength, ncalls, chain, last>>

\* nexx_srconfirm: a frame with this index comes back
Receive(t, out, cmdok) ==
    /\ call[t].pc = "sent"
    /\ LET c == call[t]
       IN  /\ rxbuf' = [rxbuf EXCEPT ![c.idx] =
                  ReplyFrame(rxbuf[c.idx], txbuf[c.idx], txbuflength[c.idx], c.length,
                             out[2], cmdok, c.prim = "LRWDC")]
           /\ bufstat' = setbufstat(bufstat, c.idx, "COMPLETE")
           /\ call' = [call EXCEPT ![t] = [c EXCEPT !.pc = "confirmed", !.wkc = out[1],
                                                    !.sr = out[1], !.reply = "own"]]
    /\ UNCHANGED <<late, bigEndian, ptrSize, txbuf, txbuflength, ncalls, chain, last>>

\* a primitive that sends its frame again when the timeout expires
Timeout_resend(t) ==
    /\ call[t].pc = "sent"
    /\ call' = [call EXCEPT ![t] = [call[t] EXCEPT !.pc = "built"]]
    /\ UNCHANGED <<late, bigEndian, ptrSize, bufstat, txbuf, rxbuf, txbuflength, ncalls, chain, last>>

\* nexx_srconfirm: the timeout expires
Timeout(t) ==
    /\ call[t].pc = "sent"
    /\ call' = [call EXCEPT ![t] = [call[t] EXCEPT !.pc = "confirmed",
                                                   !.wkc = NEX_NOFRAME, !.sr = NEX_NOFRAME]]
    /\ UNCHANGED <<late, bigEndian, ptrSize, bufstat, txbuf, rxbuf, txbuflength, ncalls, chain, last>>

\* the read-back done with the index already released
Copy_released(t) ==
    /\ call[t].pc = "confirmed"
    /\ call' = [call EXCEPT ![t] =
                   [ReadBack(call[t], rxbuf[call[t].idx]) EXCEPT !.pc = "copied"]]
    /\ bufstat' = setbufstat(bufstat, call[t].idx, "EMPTY")
    /\ UNCHANGED <<late, bigEndian, ptrSize, txbuf, rxbuf, txbuflength, ncalls, chain, last>>

\* the read-back from rxbuf[idx] into the caller's buffers
Copy(t) ==
    /\ call[t].pc = "confirmed"
    /\ call' = [call EXCEPT ![t] =
                   [ReadBack(call[t], rxbuf[call[t].idx]) EXCEPT !.pc = "copied"]]
    /\ UNCHANGED <<late, bigEndian, ptrSize, bufstat, txbuf, rxbuf, txbuflength, ncalls, chain, last>>

\* nexx_setbufstat(port, idx, NEX_BUF_EMPTY) and the return
Release(t) ==
    /\ call[t].pc = "copied"
    /\ call' = [call EXCEPT ![t] =
                   [call[t] EXCEPT !.pc = "done", !.ret = ReturnValue(call[t]),
                                   !.nsetbufstat = call[t].nsetbufstat + 1]]
    /\ bufstat' = FinishStat(call[t], bufstat)
    /\ UNCHANGED <<late, bigEndian, ptrSize, txbuf, rxbuf, txbuflength, ncalls, chain, last>>

\* the caller takes the result
Return(t) ==
    /\ call[t].pc = "done"
    /\ call' = [call EXCEPT ![t] = IdleCall]
    /\ UNCHANGED <<late, bigEndian, ptrSize, bufstat, txbuf, rxbuf, txbuflength, ncalls, chain, last>>

\* the one task of a blocking, synchronous caller
Caller == CHOOSE t \in Tasks : \A u \in Tasks : t <= u

Next ==
    \/ \E p \in Prims, idx \in Slots : \E a \in PrimArgs(p) : GetIndex(Caller, p, a, idx)
    \/ Build(Caller)
    \/ Send(Caller)
    \/ \E out \in Outcomes(call[Caller].prim), cmdok \in BOOLEAN : Receive(Caller, out, cmdok)
    \/ Timeout(Caller)
    \/ Copy(Caller)
    \/ Release(Caller)
    \/ Return(Caller)

Spec == PortInit /\ [][Next]_vars

(***************************************************************************)
(* Several caller tasks on one port, each in a primitive of its own.       *)
(***************************************************************************)
\* a read, a word read and the two-datagram primitive
ConcPrims == {"APRD", "APRDw", "LRWDC"}

\* the steps of task t
TaskNext(t) ==
    \/ \E p \in ConcPrims, idx \in Slots : \E a \in PrimArgs(p) :
          /\ ncalls < NTasks * MaxCalls
          /\ AcquireIndex(t, p, a, idx)
    \/ Build(t)
    \/ Send(t)
    \/ \E out \in Outcomes(call[t].prim), cmdok \in BOOLEAN : Receive(t, out, cmdok)
    \/ Timeout(t)
    \/ Copy(t)
    \/ Release(t)
    \/ Return(t)

NextConc == \E t \in Tasks : TaskNext(t)

\* the ownership of the slots does not depend on the host
InitConc == PortInit /\ ~bigEndian /\ ptrSize = 8

SpecConc == InitConc /\ [][NextConc]_vars

(***************************************************************************)
(* A reply that comes after the timeout of the call that sent its frame.   *)
(***************************************************************************)
\* nexx_srconfirm: the timeout expires while the frame is still on the wire
TimeoutInFlight(t) ==
    /\ call[t].pc = "sent"
    /\ LET c == call[t]
       IN  /\ call' = [call EXCEPT ![t] = [c EXCEPT !.pc = "confirmed",
                                                    !.wkc = NEX_NOFRAME, !.sr = NEX_NOFRAME]]
           /\ late' = [late EXCEPT ![c.idx] =
                          [pending |-> TRUE, frame |-> txbuf[c.idx],
                           txlen |-> txbuflength[c.idx], length |-> c.length]]
    /\ UNCHANGED <<bigEndian, ptrSize, bufstat, txbuf, rxbuf, txbuflength, ncalls, chain, last>>

\* nexx_srconfirm: the frame that comes back with this index is the reply to
\* the frame of the earlier call
LateReceive(t, out) ==
    /\ call[t].pc = "sent"
    /\ late[call[t].idx].pending
    /\ LET c == call[t]
           l == late[c.idx]
       IN  /\ rxbuf' = [rxbuf EXCEPT ![c.idx] =
                  ReplyFrame(rxbuf[c.idx], l.frame, l.txlen, l.length, out[2], TRUE, FALSE)]
           /\ bufstat' = setbufstat(bufstat, c.idx, "COMPLETE")
           /\ call' = [call EXCEPT ![t] = [c EXCEPT !.pc = "confirmed", !.wkc = out[1],
                                                    !.sr = out[1], !.reply = "late"]]
           /\ late' = [late EXCEPT ![c.idx] = NoFrame]
    /\ UNCHANGED <<bigEndian, ptrSize, txbuf, txbuflength, ncalls, chain, last>>

\* a broadcast read, a position read and a logical read, one call after the other
LatePrims == {"BRD", "APRD", "LRD"}

NextLate ==
    \/ \E p \in LatePrims, idx \in Slots : \E a \in PrimArgs(p) :
          /\ ncalls < MaxCalls + 1
          /\ AcquireIndex(Caller, p, a, idx)
    \/ Build(Caller)
    \/ Send(Caller)
    \/ \E out \in Outcomes(call[Caller].prim), cmdok \in BOOLEAN : Receive(Caller, out, cmdok)
    \/ Timeout(Caller)
    \/ TimeoutInFlight(Caller)
    \/ \E out \in Outcomes(call[Caller].prim) : LateReceive(Caller, out)
    \/ Copy(Caller)
    \/ Release(Caller)
    \/ Return(Caller)

\* the reply of another call does not depend on the host
InitLate == PortInit /\ ~bigEndian /\ ptrSize = 8

SpecLate == InitLate /\ [][NextLate]_vars

(***************************************************************************)
(* Properties of the primitives (Spec).                                    *)
(***************************************************************************)
\* the reply command byte of the frame in rxbuf[idx] of call c
ReplyCmd(c) == rxbuf[c.idx][NEX_CMDOFFSET]

\* C1: when a primitive has returned, whatever srconfirm reported, the index it
\* acquired with getindex is EMPTY.
C1_IndexReleased ==
    \A t \in Tasks :
        call[t].pc = "done" => bufstat[call[t].idx] = "EMPTY"

\* a timed-out LRWDC has returned and its index is EMPTY
C1_Witness ==
    \E t \in Tasks :
        /\ call[t].pc = "done"
        /\ call[t].prim = "LRWDC"
        /\ call[t].sr = NEX_NOFRAME
        /\ bufstat[call[t].idx] = "EMPTY"

\* C2: when srconfirm returns NEX_NOFRAME, a primitive with an int result returns
\* NEX_NOFRAME and leaves the caller's data and *DCtime as they were.
C2_TimeoutReturnsNoFrame ==
    \A t \in Tasks :
        (/\ call[t].pc = "done"
         /\ call[t].sr = NEX_NOFRAME
         /\ call[t].prim \notin WordReadPrims)
        => /\ call[t].ret = NEX_NOFRAME
           /\ call[t].data = call[t].data0
           /\ call[t].DCtime = call[t].DCtime0

\* a read with a non-empty buffer has timed out and returned
C2_Witness ==
    \E t \in Tasks :
        /\ call[t].pc = "done"
        /\ call[t].sr = NEX_NOFRAME
        /\ call[t].prim = "FPRD"
        /\ call[t].length > 0
        /\ call[t].ret = NEX_NOFRAME

ReadProducing == {"BRD", "APRD", "FPRD", "ARMW", "FRMW"}

\* C3 as stated: with wkc > 0 a read-producing primitive returns wkc and data
\* holds the length bytes of rxbuf[idx] from offset 10; with wkc <= 0 nothing is
\* copied.
C3_ReadBackFromOffset10 ==
    \A t \in Tasks :
        (call[t].pc = "done" /\ call[t].prim \in ReadProducing)
        => IF call[t].sr > 0
           THEN /\ call[t].ret = call[t].sr
                /\ call[t].data = Slice(rxbuf[call[t].idx], 10, call[t].length)
           ELSE call[t].data = call[t].data0

\* C3 amended: with wkc > 0 a read-producing primitive returns wkc and data holds
\* the length bytes of rxbuf[idx] from offset 12, behind the 2-byte EtherCAT
\* header and the 10-byte sub-header, whatever the reply's command byte is; with
\* wkc <= 0 nothing is copied.
C3_ReadBackFromOffset12 ==
    \A t \in Tasks :
        (call[t].pc = "done" /\ call[t].prim \in ReadProducing)
        => IF call[t].sr > 0
           THEN /\ call[t].ret = call[t].sr
                /\ call[t].data = Slice(rxbuf[call[t].idx], 12, call[t].length)
           ELSE call[t].data = call[t].data0

\* FRMW has copied a payload from a reply whose command byte is not FRMW
C3_Witness ==
    \E t \in Tasks :
        /\ call[t].pc = "done"
        /\ call[t].prim = "FRMW"
        /\ call[t].sr > 0
        /\ call[t].length > 0
        /\ ReplyCmd(call[t]) # NEX_CMD_FRMW
        /\ call[t].data # call[t].data0

\* C4: LRD, LRW and LRWDC with wkc > 0: a reply whose command byte is not the
\* command sent leaves data and *DCtime untouched and the transport's wkc is
\* returned; a reply with the command sent overwrites data with its payload.
C4_CommandMismatchSkipsCopy ==
    \A t \in Tasks :
        (call[t].pc = "done" /\ call[t].prim \in {"LRD", "LRW", "LRWDC"} /\ call[t].sr > 0)
        => IF ReplyCmd(call[t]) # PrimCmd(call[t].prim)
           THEN /\ call[t].data = call[t].data0
                /\ call[t].DCtime = call[t].DCtime0
                /\ call[t].ret = call[t].sr
           ELSE call[t].data = Slice(rxbuf[call[t].idx], 12, call[t].length)

\* LRWDC got wkc > 0 with a reply of another command and returned that wkc
C4_Witness ==
    \E t \in Tasks :
        /\ call[t].pc = "done"
        /\ call[t].prim = "LRWDC"
        /\ call[t].sr > 0
        /\ call[t].length > 0
        /\ ReplyCmd(call[t]) # NEX_CMD_LRW
        /\ call[t].ret = call[t].sr
        /\ call[t].data = call[t].data0

\* a LRWDC call that has returned after a reply with wkc > 0 and command LRW
LRWDCSucceeded(c) ==
    /\ c.pc = "done"
    /\ c.prim = "LRWDC"
    /\ c.sr > 0
    /\ ReplyCmd(c) = NEX_CMD_LRW

\* C5: a successful LRWDC returns the 16-bit little-endian working counter that
\* the received frame holds directly behind the LRW payload, on a host of either
\* byte order.
C5_ReturnsLrwWkc ==
    \A t \in Tasks :
        LRWDCSucceeded(call[t])
        => call[t].ret = LE16(rxbuf[call[t].idx], 12 + call[t].length)

\* C6: the frame LRWDC hands to srconfirm holds exactly two datagrams: LRW with
\* ADP and ADO the low and high word of LogAdr, the caller's data and bit 15 of
\* dlength set; then FRMW with ADP = DCrs, ADO = 0x0910, a payload of exactly 8
\* bytes holding *DCtime little-endian and bit 15 clear, for a pointer of 4 or 8
\* bytes.
C6_LrwdcFrame ==
    \A t \in Tasks :
        (call[t].pc \in {"built", "sent"} /\ call[t].prim = "LRWDC")
        => LET c == call[t]
               f == txbuf[c.idx]
               o2 == 28 + c.length
           IN  /\ f[16] = NEX_CMD_LRW
               /\ LE16(f, 18) = c.LogAdr % 65536
               /\ LE16(f, 20) = c.LogAdr \div 65536
               /\ LE16(f, 22) = c.length + 32768
               /\ Slice(f, 26, c.length) = c.data0
               /\ f[o2] = NEX_CMD_FRMW
               /\ LE16(f, o2 + 2) = c.DCrs
               /\ LE16(f, o2 + 4) = 2320
               /\ LE16(f, o2 + 6) = 8
               /\ Slice(f, o2 + 10, 8) = c.DCtime0
               /\ txbuflength[c.idx] = o2 + 10 + 8 + 2

\* C7: after a successful LRWDC *DCtime is the little-endian value of the 8
\* bytes of the received frame at DCtO, and these 8 bytes lie inside the payload
\* of the FRMW datagram that was sent.
C7_DCtimeFromFrmwPayload ==
    \A t \in Tasks :
        LRWDCSucceeded(call[t])
        => LET c == call[t]
               o2 == 28 + c.length
               sent == LE16(txbuf[c.idx], o2 + 6) % 32768
               pstart == o2 + 10 - 14
           IN  /\ c.DCtime = Slice(rxbuf[c.idx], c.DCtO, 8)
               /\ c.DCtO >= pstart
               /\ c.DCtO + 8 <= pstart + sent

(***************************************************************************)
(* Properties of the frame builder (SpecFB, SpecChain).                    *)
(***************************************************************************)
\* the frame the last frame-builder call worked on
BuiltFrame == txbuf[last.idx]

\* C8: after setupdatagram byte 16 is the command, byte 17 the index, bytes
\* 18..19 ADP and 20..21 ADO little-endian, bytes 22..23 the length
\* little-endian with bit 15 clear, the payload lies at 26..26+length-1 and the
\* two bytes behind it are zero, on a host of either byte order.
C8_SetupLayout ==
    last.op = "setup"
    => LET f == BuiltFrame
       IN  /\ f[16] = last.com
           /\ f[17] = last.idx
           /\ f[18] = last.ADP % 256 /\ f[19] = last.ADP \div 256
           /\ f[20] = last.ADO % 256 /\ f[21] = last.ADO \div 256
           /\ f[22] = last.length % 256 /\ f[23] = last.length \div 256
           /\ f[23] < 128
           /\ last.com \notin ReadCommands => Slice(f, 26, last.length) = last.data
           /\ f[26 + last.length] = 0
           /\ f[26 + last.length + 1] = 0

\* setupdatagram has built a FPWR datagram with a payload on a big-endian host
C8_Witness ==
    /\ last.op = "setup"
    /\ bigEndian
    /\ last.com = NEX_CMD_FPWR
    /\ last.length > 0
    /\ BuiltFrame[18] = 1 /\ BuiltFrame[19] = 16

\* the offset in the tx frame of the payload the last frame-builder call wrote
PayloadOffset == IF last.op = "setup" THEN 26 ELSE last.prev + 10

\* C9: setupdatagram and adddatagram leave the payload region all zero for NOP,
\* APRD, FPRD, BRD and LRD whatever data holds, and equal to the first length
\* bytes of data for every other command.
C9_ReadPayloadZero ==
    last.op \in {"setup", "add"}
    => LET payload == Slice(BuiltFrame, PayloadOffset, last.length)
       IN  IF last.com \in {NEX_CMD_NOP, NEX_CMD_APRD, NEX_CMD_FPRD, NEX_CMD_BRD, NEX_CMD_LRD}
           THEN \A k \in 0 .. (last.length - 1) : payload[k] = 0
           ELSE payload = last.data

\* adddatagram has appended a LRD datagram whose data argument is not zero
C9_Witness ==
    /\ last.op = "add"
    /\ last.com = NEX_CMD_LRD
    /\ last.length > 0
    /\ last.data[0] # 0
    /\ BuiltFrame[PayloadOffset] = 0

\* bit 15 of the dlength field of the j-th datagram of the chain
FollowsSet(j) == LE16(BuiltFrame, chain[j].off + 6) >= 32768

\* every adddatagram but the last was called with more = TRUE, the last with FALSE
MoreAsChained == \A j \in 2 .. Len(chain) : chain[j].more <=> (j < Len(chain))

\* every datagram except the last has bit 15 set, the last has it clear
FollowsChained == \A j \in 1 .. Len(chain) : FollowsSet(j) <=> (j < Len(chain))

SetupStep == chain = << >> /\ chain' # << >>

\* the offsets setupdatagram stores to, found by building into a frame none of
\* whose cells holds a byte
SetupWrites ==
    LET blank == [k \in BufIdx |-> -1]
        f == setupdatagram_frame(blank, last.com, last.idx, last.ADP, last.ADO,
                                 last.length, last.data)
    IN  {k \in BufIdx : f[k] # -1}

\* C11: setupdatagram sets txbuflength[idx] to 26 + length + 2, which is 1514
\* for length 1486 and within the 1518 bytes of a slot buffer; every byte it
\* writes lies below that length and txbuflength of every other index keeps its
\* value.
C11_SetupLength ==
    [][/\ setupdatagram_length(1486) = 1514
       /\ setupdatagram_length(1486) <= NEX_MAXECATFRAME
       /\ SetupStep
          => LET idx == last'.idx
             IN  /\ txbuflength'[idx] = 26 + last'.length + 2
                 /\ \A k \in BufIdx :
                        txbuf'[idx][k] # txbuf[idx][k] => k < txbuflength'[idx]
                 /\ \A k \in SetupWrites' : k < txbuflength'[idx]
                 /\ \A j \in Slots \ {idx} :
                        /\ txbuflength'[j] = txbuflength[j]
                        /\ txbuf'[j] = txbuf[j]]_vars

\* setupdatagram has built a FPWR datagram with a payload in slot 1
C11_Witness ==
    /\ last.op = "setup"
    /\ last.idx = 1
    /\ last.com = NEX_CMD_FPWR
    /\ last.length = MaxLen
    /\ txbuflength[1] = 28 + MaxLen
    /\ txbuflength[0] = 0
    /\ (27 + MaxLen) \in SetupWrites

\* the bytes datagram j of the chain takes in the frame: sub-header, payload
\* and working counter
DatagramBytes(j) == 10 + chain[j].length + 2

\* the bytes of all datagrams chained in the frame
ChainBytes ==
    LET s[n \in 0 .. Len(chain)] == IF n = 0 THEN 0 ELSE s[n - 1] + DatagramBytes(n)
    IN  s[Len(chain)]

\* C12: in a frame built by setupdatagram and any adddatagram calls the low 12
\* bits of the little-endian word at bytes 14..15 are the sum over the chained
\* datagrams of sub-header, payload and working counter, and the high nibble
\* stays the EtherCAT type; the sum is the frame length less 16, so no frame
\* that fits the slot buffer carries into the nibble.
C12_ElengthIsSum ==
    chain # << >>
    => LET w == LE16(BuiltFrame, 14)
       IN  /\ w % 4096 = ChainBytes
           /\ w - (w % 4096) = NEX_ECATTYPE
           /\ ChainBytes = txbuflength[last.idx] - 16
           /\ NEX_ECATTYPE + (NEX_MAXECATFRAME - 16) < 2 * NEX_ECATTYPE

\* three datagrams with payloads on a big-endian host
C12_Witness ==
    /\ Len(chain) = 3
    /\ bigEndian
    /\ \A j \in 1 .. 3 : chain[j].length = MaxLen
    /\ LE16(BuiltFrame, 14) = 4096 + 3 * (12 + MaxLen)

\* the payload bytes of all datagrams chained in the frame
ChainPayload ==
    LET s[n \in 0 .. Len(chain)] == IF n = 0 THEN 0 ELSE s[n - 1] + chain[n].length
    IN  s[Len(chain)]

\* C13 as stated: after setupdatagram and k adddatagram calls with payload
\* lengths L0..Lk, txbuflength[idx] = 14 + 10*(k+1) + (L0 + ... + Lk) + 2, and
\* each adddatagram sets it to prev - 2 + 10 + length + 2.
C13_TxLengthTenPerDatagram ==
    chain # << >>
    => /\ txbuflength[last.idx] = 14 + 10 * Len(chain) + ChainPayload + 2
       /\ last.op = "add"
          => txbuflength[last.idx] = last.prev - 2 + 10 + last.length + 2

\* C13 amended: txbuflength[idx] = 14 + 2 + 12*(k+1) + (L0 + ... + Lk): the
\* Ethernet header, the EtherCAT header and, per datagram, sub-header, payload
\* and working counter; each adddatagram sets it to prev + 10 + length + 2.
C13_TxLengthTwelvePerDatagram ==
    chain # << >>
    => /\ txbuflength[last.idx] = 14 + 2 + 12 * Len(chain) + ChainPayload
       /\ last.op = "add"
          => txbuflength[last.idx] = last.prev + 10 + last.length + 2

\* two datagrams added, the last with a payload
C13_Witness ==
    /\ Len(chain) = 3
    /\ last.op = "add"
    /\ last.length = MaxLen
    /\ chain[1].length = 0
    /\ txbuflength[last.idx] = last.prev + 12 + MaxLen

\* C14 as stated: the length field of the word at bytes 14..15, the type nibble
\* masked off, is 10*(k+1) + (L0 + ... + Lk); after setupdatagram alone the
\* word is the type constant with 10 + length.
C14_ElengthTenPerDatagram ==
    chain # << >>
    => /\ LE16(BuiltFrame, 14) % 4096 = 10 * Len(chain) + ChainPayload
       /\ Len(chain) = 1 => LE16(BuiltFrame, 14) = 4096 + 10 + chain[1].length

\* C14 amended: the length field is 12*(k+1) + (L0 + ... + Lk), sub-header and
\* working counter of every datagram counted; after setupdatagram alone the word
\* is the type constant with 12 + length.
C14_ElengthTwelvePerDatagram ==
    chain # << >>
    => /\ LE16(BuiltFrame, 14) % 4096 = 12 * Len(chain) + ChainPayload
       /\ Len(chain) = 1 => LE16(BuiltFrame, 14) = 4096 + 12 + chain[1].length

\* setupdatagram alone, with a payload, on a little-endian host
C14_Witness ==
    /\ Len(chain) = 1
    /\ ~bigEndian
    /\ chain[1].length = MaxLen
    /\ BuiltFrame[14] = 12 + MaxLen
    /\ BuiltFrame[15] = 16

\* C15 as stated: adddatagram returns prev - 6.
C15_ReturnsPrevMinus6 ==
    last.op = "add" => last.ret = last.prev - 6

\* C15 amended: adddatagram returns prev - 4; 14 bytes further in the tx frame,
\* the received frame lacking the Ethernet header, lies the payload of the
\* datagram it appended, directly behind the 10 bytes of its sub-header.
C15_ReturnsPrevMinus4 ==
    last.op = "add"
    => /\ last.ret = last.prev - 4
       /\ BuiltFrame[last.ret + 14 - 10] = last.com
       /\ last.com \notin ReadCommands
          => Slice(BuiltFrame, last.ret + 14, last.length) = last.data

\* adddatagram has appended a FRMW datagram with a payload behind a datagram
\* without one
C15_Witness ==
    /\ last.op = "add"
    /\ last.com = NEX_CMD_FRMW
    /\ last.length = MaxLen
    /\ last.prev = 28
    /\ last.ret = 24
    /\ BuiltFrame[38] = last.data[0]

\* bit 15 of a dlength word for the argument more
FollowsBit(more) == IF more THEN 32768 ELSE 0

\* C16 as stated: adddatagram writes command, index, ADP, ADO and dlength of the
\* new datagram from offset prev - 2 on, over the working counter of the
\* datagram before it, with bit 15 of dlength set iff more.
C16_SubheaderOverWkc ==
    last.op = "add"
    => LET f == BuiltFrame
           o == last.prev - 2
       IN  /\ f[o] = last.com
           /\ f[o + 1] = last.idx
           /\ LE16(f, o + 2) = last.ADP
           /\ LE16(f, o + 4) = last.ADO
           /\ LE16(f, o + 6) = last.length + FollowsBit(chain[Len(chain)].more)

\* C16 amended: adddatagram writes them from offset prev on, directly behind the
\* working counter of the datagram before it, which it leaves as it was, with
\* bit 15 of dlength set iff more.
C16_SubheaderBehindWkc ==
    last.op = "add"
    => LET f == BuiltFrame
           o == last.prev
       IN  /\ f[o] = last.com
           /\ f[o + 1] = last.idx
           /\ LE16(f, o + 2) = last.ADP
           /\ LE16(f, o + 4) = last.ADO
           /\ LE16(f, o + 6) = last.length + FollowsBit(chain[Len(chain)].more)
           /\ f[o - 2] = last.before[o - 2]
           /\ f[o - 1] = last.before[o - 1]

\* adddatagram has appended a BWR datagram with more = TRUE on a big-endian host
C16_Witness ==
    /\ last.op = "add"
    /\ bigEndian
    /\ last.com = NEX_CMD_BWR
    /\ chain[Len(chain)].more
    /\ BuiltFrame[last.prev] = NEX_CMD_BWR
    /\ BuiltFrame[last.prev + 7] >= 128
    /\ BuiltFrame[last.prev - 2] = 0

(***************************************************************************)
(* Ownership of the slots and order of the steps (Spec, SpecConc).         *)
(***************************************************************************)
\* the call is between its getindex and its setbufstat(EMPTY)
InFlight(c) == c.pc \in {"alloc", "built", "sent", "confirmed", "copied"}

\* the step is one of task u
StepOf(u) == call'[u] # call[u]

\* no two calls in flight hold the same index
HoldersDistinct ==
    \A t, u \in Tasks :
        (t # u /\ InFlight(call[t]) /\ InFlight(call[u])) => call[t].idx # call[u].idx

\* a step of another task leaves the slot of a call in flight alone
OthersLeaveSlot ==
    \A t, u \in Tasks :
        (t # u /\ InFlight(call[t]) /\ StepOf(u))
        => LET i == call[t].idx
           IN  /\ txbuf'[i] = txbuf[i]
               /\ txbuflength'[i] = txbuflength[i]
               /\ rxbuf'[i] = rxbuf[i]
               /\ bufstat'[i] = bufstat[i]
               /\ InFlight(call[u]) => call[u].idx # i
               /\ InFlight(call'[u]) => call'[u].idx # i

\* C17: with getindex handing out only EMPTY slots, in every interleaving of the
\* calls of several tasks no two calls in flight hold the same index, and
\* between getindex and setbufstat(EMPTY) of a call no other call writes
\* txbuf[i] or txbuflength[i], reads rxbuf[i] or is delivered a frame in
\* rxbuf[i] for the index i it holds.
C17_SlotOwnedByHolder ==
    []HoldersDistinct /\ [][OthersLeaveSlot]_vars

\* two calls in flight, both sent, one of them LRWDC
C17_Witness ==
    \E t, u \in Tasks :
        /\ t # u
        /\ call[t].pc = "sent" /\ call[t].prim = "LRWDC"
        /\ call[u].pc = "sent" /\ call[u].prim = "APRD"
        /\ call[t].idx # call[u].idx
        /\ txbuflength[call[t].idx] > txbuflength[call[u].idx]
        /\ txbuflength[call[u].idx] > 0

\* the order of the steps of one call
StepOrder ==
    { <<"idle", "alloc">>, <<"alloc", "built">>, <<"built", "sent">>,
      <<"sent", "confirmed">>, <<"confirmed", "copied">>, <<"copied", "done">>,
      <<"done", "idle">> }

\* the steps of task t come in order, each with its effect on slot i alone:
\* getindex, build, send, receive or timeout, copy, release, return
StepsInOrder(t) ==
    LET c == call[t]
        d == call'[t]
        i == IF c.pc = "idle" THEN d.idx ELSE c.idx
    IN  StepOf(t)
        => /\ <<c.pc, d.pc>> \in StepOrder
           /\ InFlight(c) => d.idx = c.idx
           /\ (c.pc = "idle") <=> (bufstat[i] = "EMPTY" /\ bufstat'[i] = "ALLOC")
           /\ (txbuf' # txbuf \/ txbuflength' # txbuflength) => c.pc = "alloc"
           /\ (c.pc = "built") <=> (bufstat[i] # "TX" /\ bufstat'[i] = "TX")
           /\ rxbuf' # rxbuf => c.pc = "sent"
           /\ (InFlight(c) /\ d.sr # c.sr) => c.pc = "sent"
           /\ (InFlight(c)
               /\ (d.data # c.data \/ d.DCtime # c.DCtime \/ d.wkc # c.wkc))
              => \/ c.pc = "sent" /\ d.data = c.data /\ d.DCtime = c.DCtime
                 \/ c.pc = "confirmed" /\ bufstat[i] # "EMPTY" /\ bufstat'[i] # "EMPTY"
           /\ (c.pc = "copied") <=> (bufstat[i] # "EMPTY" /\ bufstat'[i] = "EMPTY")

\* C18: one call goes through getindex, the frame build, the send, the receive
\* or timeout, the copy of the reply to the caller, setbufstat(EMPTY) and the
\* return in this order; txbuf[i] is written in the build alone, before the
\* send, and rxbuf[i] is copied from while the index is still held.
C18_StepsInOrder ==
    [][\A t \in Tasks : StepsInOrder(t)]_vars

\* BRD has copied a reply to the caller and then released its index
C18_Witness ==
    \E t \in Tasks :
        /\ call[t].pc = "done"
        /\ call[t].prim = "BRD"
        /\ call[t].sr > 0
        /\ call[t].data # call[t].data0
        /\ call[t].nsrconfirm = 1
        /\ bufstat[call[t].idx] = "EMPTY"

\* the changes of bufstat[i] along EMPTY, ALLOC, TX, RCVD or COMPLETE, EMPTY
BufstatCycle ==
    { <<"EMPTY", "ALLOC">>, <<"ALLOC", "TX">>, <<"TX", "RCVD">>, <<"TX", "COMPLETE">>,
      <<"RCVD", "COMPLETE">>, <<"RCVD", "EMPTY">>, <<"COMPLETE", "EMPTY">> }

BufstatStates == {"EMPTY", "ALLOC", "TX", "RCVD", "COMPLETE"}

\* a call whose srconfirm timed out holds index i
TimedOutHolder(i) ==
    \E t \in Tasks : InFlight(call[t]) /\ call[t].idx = i /\ call[t].sr = NEX_NOFRAME

\* C19 as stated: bufstat[i] changes only along EMPTY -> ALLOC -> TX ->
\* RCVD/COMPLETE -> EMPTY, also for a call whose srconfirm times out.
C19_BufstatCycleAlways ==
    [][\A i \in Slots :
          bufstat'[i] # bufstat[i] => <<bufstat[i], bufstat'[i]>> \in BufstatCycle]_vars

\* C19 amended: bufstat[i] holds one of the five states and changes only along
\* EMPTY -> ALLOC -> TX -> RCVD/COMPLETE -> EMPTY, or from TX straight to EMPTY
\* for a call whose srconfirm timed out, no frame having been received.
C19_BufstatCycleOrTimeout ==
    /\ [](\A i \in Slots : bufstat[i] \in BufstatStates)
    /\ [][\A i \in Slots :
             bufstat'[i] # bufstat[i]
             => \/ <<bufstat[i], bufstat'[i]>> \in BufstatCycle
                \/ /\ bufstat[i] = "TX" /\ bufstat'[i] = "EMPTY"
                   /\ TimedOutHolder(i)]_vars

\* one call timed out and released its index while another holds a reply
C19_Witness ==
    \E t, u \in Tasks :
        /\ call[t].pc = "done"
        /\ call[t].sr = NEX_NOFRAME
        /\ bufstat[call[t].idx] = "EMPTY"
        /\ call[u].pc = "confirmed"
        /\ bufstat[call[u].idx] = "COMPLETE"

\* C20: a call that has returned did one getindex, one srconfirm and one
\* setbufstat(EMPTY); no call sends twice; every call in flight holds a slot
\* that is not EMPTY, and the slots that are not EMPTY are as many as the calls
\* in flight.
C20_OneShot ==
    /\ \A t \in Tasks :
          /\ call[t].nsrconfirm <= 1
          /\ call[t].pc = "done"
             => /\ call[t].ngetindex = 1
                /\ call[t].nsrconfirm = 1
                /\ call[t].nsetbufstat = 1
          /\ InFlight(call[t]) => bufstat[call[t].idx] # "EMPTY"
    /\ Cardinality({i \in Slots : bufstat[i] # "EMPTY"})
          = Cardinality({t \in Tasks : InFlight(call[t])})

\* a word read has timed out and returned while a LRWDC is in flight
C20_Witness ==
    \E t, u \in Tasks :
        /\ call[t].pc = "done"
        /\ call[t].prim = "APRDw"
        /\ call[t].sr = NEX_NOFRAME
        /\ call[t].nsrconfirm = 1
        /\ call[u].pc = "sent"
        /\ call[u].prim = "LRWDC"
        /\ Cardinality({i \in Slots : bufstat[i] # "EMPTY"}) = 1

(***************************************************************************)
(* Write primitives, word variants, the Ethernet header (Spec, SpecChain). *)
(***************************************************************************)
\* C21: BWR, APWR, APWRw, FPWR, FPWRw and LWR leave the caller's data as it was,
\* whatever the reply, and return the value srconfirm returned.
C21_WriteLeavesData ==
    \A t \in Tasks :
        (call[t].prim \in {"BWR", "APWR", "APWRw", "FPWR", "FPWRw", "LWR"}
         /\ call[t].pc \in {"copied", "done"})
        => /\ call[t].data = call[t].data0
           /\ call[t].pc = "done" => call[t].ret = call[t].sr

\* LWR got a reply with wkc > 0 and returned it, its data untouched
C21_Witness ==
    \E t \in Tasks :
        /\ call[t].pc = "done"
        /\ call[t].prim = "LWR"
        /\ call[t].length > 0
        /\ call[t].sr > 0
        /\ call[t].ret = call[t].sr
        /\ call[t].data = call[t].data0
        /\ Slice(rxbuf[call[t].idx], 12, call[t].length) # call[t].data

\* C22: after any sequence of setupdatagram and adddatagram calls bytes 0..13
\* of every txbuf[i] are the Ethernet header preset when the port was opened.
C22_EthHeaderKept ==
    \A i \in Slots : \A k \in 0 .. 13 : txbuf[i][k] = EthHeaderByte(k)

\* three datagrams chained in slot 1 of a big-endian host
C22_Witness ==
    /\ Len(chain) = 3
    /\ bigEndian
    /\ last.idx = 1
    /\ txbuf[1][16] = chain[1].com
    /\ txbuf[1][13] = 164

\* the uint16 a host of the port's byte order reads from two bytes
HostWord(b0, b1) == IF bigEndian THEN b0 * 256 + b1 ELSE b0 + b1 * 256

\* C23: APRDw and FPRDw send the byte read with length 2 from a local word that
\* is zero and return the two payload bytes received as the host reads them,
\* without conversion; they return 0 when the read copies nothing.
C23_WordReadRaw ==
    \A t \in Tasks :
        (call[t].pc = "done" /\ call[t].prim \in {"APRDw", "FPRDw"})
        => LET c == call[t]
               f == txbuf[c.idx]
               rx == rxbuf[c.idx]
           IN  /\ f[16] = (IF c.prim = "APRDw" THEN NEX_CMD_APRD ELSE NEX_CMD_FPRD)
               /\ LE16(f, 22) = 2
               /\ c.length = 2
               /\ c.data0[0] = 0 /\ c.data0[1] = 0
               /\ IF c.sr > 0
                  THEN c.ret = HostWord(rx[12], rx[13])
                  ELSE c.ret = 0

\* wire bytes 0x34 0x12 returned as 0x1234 on a little-endian host
C23_Witness ==
    \E t \in Tasks :
        /\ call[t].pc = "done"
        /\ call[t].prim = "APRDw"
        /\ ~bigEndian
        /\ call[t].sr > 0
        /\ rxbuf[call[t].idx][12] = 52
        /\ rxbuf[call[t].idx][13] = 18
        /\ call[t].ret = 4660

\* the payload bytes of the first datagram as the argument values give them,
\* words least significant byte first, whatever the host
WirePayload(c) ==
    IF PrimCmd(c.prim) \in {NEX_CMD_NOP, NEX_CMD_APRD, NEX_CMD_FPRD, NEX_CMD_BRD, NEX_CMD_LRD}
    THEN [k \in 0 .. (c.length - 1) |-> 0]
    ELSE IF c.prim \in {"APWRw", "FPWRw"}
    THEN LET w == HostWord(c.data0[0], c.data0[1])
         IN  [k \in 0 .. 1 |-> IF k = 0 THEN w % 256 ELSE w \div 256]
    ELSE c.data0

\* the frame of task t is the wire image of its arguments
WireImageSent(t) ==
           LET c == call[t]
               f == txbuf[c.idx]
               n == c.length
               o2 == 28 + n
               dcl == txbuflength[c.idx] - o2 - 12
           IN  /\ LE16(f, 14) = 4096 + txbuflength[c.idx] - 16
               /\ f[16] = PrimCmd(c.prim)
               /\ f[17] = c.idx
               /\ LE16(f, 18) = (IF c.prim \in LogicalPrims THEN c.LogAdr % 65536 ELSE c.ADP)
               /\ LE16(f, 20) = (IF c.prim \in LogicalPrims THEN c.LogAdr \div 65536 ELSE c.ADO)
               /\ LE16(f, 22) % 32768 = n
               /\ Slice(f, 26, n) = WirePayload(c)
               /\ f[26 + n] = 0 /\ f[27 + n] = 0
               /\ c.prim = "LRWDC"
                  => /\ f[o2] = NEX_CMD_FRMW
                     /\ f[o2 + 1] = c.idx
                     /\ LE16(f, o2 + 2) = c.DCrs
                     /\ LE16(f, o2 + 4) = 2320
                     /\ LE16(f, o2 + 6) = dcl
                     /\ Slice(f, o2 + 10, dcl) = Slice(c.DCtime0, 0, dcl)

\* C24: the bytes a primitive places in txbuf from offset 14 up to txbuflength
\* are given by the argument values alone, the same on a big-endian and on a
\* little-endian host, the word of APWRw and FPWRw and the DC time of LRWDC
\* included.
C24_SameBytesOnBothHosts ==
    \A t \in Tasks :
        call[t].pc \in {"built", "sent"} => WireImageSent(t)

\* a big-endian host has sent the word of APWRw with its high byte first
C24_WordSentInHostOrder ==
    \E t \in Tasks :
        /\ bigEndian
        /\ call[t].pc = "sent"
        /\ call[t].prim = "APWRw"
        /\ HostWord(call[t].data0[0], call[t].data0[1]) = 4660
        /\ txbuf[call[t].idx][26] = 18
        /\ txbuf[call[t].idx][27] = 52

\* the bytes differ on a big-endian host for no primitive but APWRw and FPWRw
C24_OnlyWordWritesDiffer ==
    \A t \in Tasks :
        (call[t].pc \in {"built", "sent"}
         /\ ~(bigEndian /\ call[t].prim \in {"APWRw", "FPWRw"}))
        => WireImageSent(t)

\* C28: a primitive called with a length of at most 1486 writes inside the
\* 1518-byte slot buffer and sends with txbuflength[idx] <= 1518; LRWDC, whose
\* frame carries the FRMW datagram behind the LRW datagram, included.
C28_FrameFitsSlot ==
    \A t \in Tasks :
        call[t].pc \in {"built", "sent"}
        => /\ txbuflength[call[t].idx] = BuildLength(call[t])
           /\ \A n \in {call[t].length, 1486} :
                  BuildLength([call[t] EXCEPT !.length = n]) <= NEX_MAXECATFRAME

\* every primitive but LRWDC stays inside the slot buffer with length 1486
C28_SingleDatagramFits ==
    \A t \in Tasks :
        (call[t].pc \in {"built", "sent"} /\ call[t].prim # "LRWDC")
        => /\ txbuflength[call[t].idx] = BuildLength(call[t])
           /\ BuildLength([call[t] EXCEPT !.length = 1486]) = 1514

\* the primitives that hand a data buffer back to the caller
DataOutPrims == {"BRD", "APRD", "FPRD", "ARMW", "FRMW", "LRD", "LRW", "LRWDC"}

BuffersUntouched(c) == c.data = c.data0 /\ c.DCtime = c.DCtime0

EchoedFrame ==
    [k \in 0 .. (txbuflength[last.idx] - ETH_HEADERSIZE - 1) |->
        BuiltFrame[k + ETH_HEADERSIZE]]

\* the tx offset of the payload of datagram j: behind the frame headers, the
\* datagrams before j and the sub-header of j
DatagramPayloadOffset(j) ==
    LET s[n \in 0 .. j] == IF n = 0 THEN 0 ELSE s[n - 1] + 12 + chain[n].length
    IN  16 + s[j - 1] + 10

\* C30: in a chain of one setupdatagram and k >= 1 adddatagram calls the value
\* an adddatagram returns, plus 14, is the tx offset of the first payload byte
\* it wrote, and in the sent frame without its Ethernet header the value itself
\* addresses the payload of that datagram, which ends at its working counter.
C30_ReturnAddressesPayload ==
    last.op = "add"
    => LET j == Len(chain)
           rx == EchoedFrame
       IN  /\ j >= 2
           /\ last.ret + 14 = DatagramPayloadOffset(j)
           /\ last.ret + 14 + last.length + NEX_WKCSIZE = txbuflength[last.idx]
           /\ \A k \in 0 .. (last.length - 1) :
                  /\ rx[last.ret + k] = BuiltFrame[DatagramPayloadOffset(j) + k]
                  /\ rx[last.ret + k] =
                        (IF last.com \in ReadCommands THEN 0 ELSE last.data[k])
           /\ rx[last.ret - 10] = last.com
           /\ rx[last.ret - 4] + 256 * (rx[last.ret - 3] % 128) = last.length

\* the third adddatagram of a chain has written the payload of a write command
\* behind three datagrams, one of them with a payload
C30_Witness ==
    /\ last.op = "add"
    /\ Len(chain) = MaxAdds + 1
    /\ last.com = NEX_CMD_FPWR
    /\ last.length = 1
    /\ ChainPayload = 2
    /\ last.ret = 37
    /\ BuiltFrame[51] = last.data[0]
    /\ last.data[0] # 0

(***************************************************************************)
(* Slots built in again after an earlier frame (SpecReuse).                *)
(***************************************************************************)
\* C26: from zero-filled slot buffers on, whatever frames were built in the
\* slots before, every datagram of a frame built by setupdatagram and
\* adddatagram calls has a 2-byte IRQ field of zero when the frame is handed
\* to the transport.
C26_IrqZero ==
    chain # << >>
    => \A j \in 1 .. Len(chain) :
          /\ BuiltFrame[chain[j].off - NEX_CMDOFFSET + OFF_IRQ] = 0
          /\ BuiltFrame[chain[j].off - NEX_CMDOFFSET + OFF_IRQ + 1] = 0

\* the IRQ field of the first datagram, which no payload ever covers, is zero
C26_FirstIrqZero ==
    chain # << >> => BuiltFrame[24] = 0 /\ BuiltFrame[25] = 0

\* C27: setupdatagram leaves a single-datagram frame whatever the slot held:
\* bit 15 of the first dlength clear, the EtherCAT length that of the one new
\* datagram, txbuflength[idx] that of a single datagram, the working counter
\* zero behind the payload.
C27_SetupStartsAfresh ==
    last.op = "setup"
    => LET f == BuiltFrame
           n == last.length
       IN  /\ Len(chain) = 1
           /\ f[22] = n % 256
           /\ f[23] = n \div 256
           /\ f[23] < 128
           /\ f[14] + 256 * f[15] = NEX_ECATTYPE + 10 + n + 2
           /\ txbuflength[last.idx] = 16 + 10 + n + 2
           /\ f[16] = last.com
           /\ f[26 + n] = 0 /\ f[27 + n] = 0

\* setupdatagram has built in a slot that held a frame of three datagrams
\* with bit 15 of the first dlength set
C27_Witness ==
    /\ last.op = "setup"
    /\ ncalls = 1
    /\ last.prev >= 16 + 3 * 12
    /\ last.before[23] >= 128
    /\ last.before[14] + 256 * (last.before[15] % 16) >= 36
    /\ BuiltFrame[23] = 0
    /\ txbuflength[last.idx] = 28 + last.length

C25_LateReplyCopied ==
    \E t \in Tasks :
        /\ call[t].pc = "done"
        /\ call[t].prim = "APRD"
        /\ call[t].reply = "late"
        /\ rxbuf[call[t].idx][NEX_CMDOFFSET] = NEX_CMD_BRD
        /\ call[t].length = 1
        /\ call[t].data # call[t].data0
        /\ call[t].ret > 0

(***************************************************************************)
(* What adddatagram touches (SpecChain).                                   *)
(***************************************************************************)
\* a step of adddatagram
AddStep == chain # << >> /\ Len(chain') = Len(chain) + 1

\* the bytes of datagram j of the chain: sub-header, payload, working counter
DatagramCells(j) == chain[j].off .. (chain[j].off + 10 + chain[j].length + 1)

====
